---- MODULE Spec2Model ----
(***************************************************************************)
(* A model of src/src/strings.ts: the word segmenter and the case          *)
(* converters built on it, the wildcard compiler and the template          *)
(* compiler.  Strings are sequences of UTF-16 code units (numbers), so the *)
(* character ranges of the regular expressions are the ranges of the       *)
(* source.  JavaScript values are records [tag, val].                      *)
(***************************************************************************)
EXTENDS Integers, Sequences, FiniteSets, TLC

\* op:       the function called last ("init" before the first call)
\* applied:  the number of calls made of kebabCase, of test() or of the
\*           compiled template function
\* str, arg, ret:  the string a caller of words, camelCase or kebabCase
\*           holds, the argument of the last call and what it returned
\* pattern, flags, matcher:  the arguments of wildcardToRegExp and the
\*           RegExp it returned (or the error it threw)
\* cand, result:  the argument of the last matcher.test() and its result
\* tpl, compiled:  the argument of template and the function it returned
\*           (or the error it threw)
\* resolver, out, called:  the callback of the last call of the compiled
\*           function, the array returned and the keys the callback got
VARIABLES str, ret, op, arg, applied,
          pattern, flags, matcher, cand, result,
          tpl, compiled, out, called, resolver

vars == <<str, ret, op, arg, applied, pattern, flags, matcher, cand, result,
          tpl, compiled, out, called, resolver>>

wordVars == <<str, ret, op, arg, applied>>
wildVars == <<pattern, flags, matcher, cand, result>>
tplVars == <<tpl, compiled, out, called, resolver>>

(***************************************************************************)
(* Bounds of the model.                                                    *)
(***************************************************************************)
MaxLen == 4
MaxApply == 2

(***************************************************************************)
(* JavaScript values.                                                      *)
(***************************************************************************)
Str(s) == [tag |-> "string", val |-> s]
Arr(a) == [tag |-> "array", val |-> a]
Undefined == [tag |-> "undefined", val |-> <<>>]
Null == [tag |-> "null", val |-> <<>>]
TypeError == [tag |-> "TypeError", val |-> <<>>]
SyntaxError == [tag |-> "SyntaxError", val |-> <<>>]
None == [tag |-> "none", val |-> <<>>]

\* ToBoolean: undefined, null and the empty string are falsy; arrays are truthy.
Truthy(v) == \/ v.tag = "array"
             \/ v.tag = "string" /\ v.val # <<>>

SeqsUpTo(S, n) == UNION {[1..k -> S] : k \in 0..n}

RECURSIVE Flatten(_)
Flatten(ss) == IF ss = <<>> THEN <<>> ELSE Head(ss) \o Flatten(Tail(ss))

Max(S) == CHOOSE x \in S : \A y \in S : y <= x

(***************************************************************************)
(* Character classes of the three regular expressions (lines 3 to 6).      *)
(***************************************************************************)
\* The code units of the model: Latin-1 and the two upper-case forms outside it.
CodeUnits == (0..255) \cup {376, 924}

\* [^\x00-\x2f\x3a-\x40\x5b-\x60\x7b-\x7f]
AsciiWordChars == CodeUnits \ ((0..47) \cup (58..64) \cup (91..96) \cup (123..127))

\* [A-Z\xc0-\xd6\xd8-\xde]
Uppers == (65..90) \cup (192..214) \cup (216..222)

\* [a-z\xdf-\xf6\xf8-\xff]
Lowers == (97..122) \cup (223..246) \cup (248..255)

\* \d
DigitChars == 48..57

Upper(c) == c \in Uppers
Lower(c) == c \in Lowers
Digit(c) == c \in DigitChars

\* [\xac\xb1\xd7\xf7\x00-\x2f\x3a-\x40\x5b-\x60\x7b-\xbf \t\x0b\f\xa0\n\r]
Break(c) == c \in {172, 177, 215, 247} \cup (0..47) \cup (58..64) \cup (91..96)
                  \cup (123..191) \cup {32, 9, 11, 12, 160, 10, 13}

AsciiLower(c) == c \in 97..122
AsciiUpper(c) == c \in 65..90
AsciiLetter(c) == AsciiLower(c) \/ AsciiUpper(c)

\* The length of the longest run of characters of class Cls that starts at p.
RECURSIVE RunLen(_, _, _)
RunLen(s, p, Cls) ==
  IF p <= Len(s) /\ s[p] \in Cls THEN 1 + RunLen(s, p + 1, Cls) ELSE 0

\* (?=[break]|[A-Z..]|$)
LookBreakUpperEnd(s, p) == p > Len(s) \/ Break(s[p]) \/ Upper(s[p])

\* (?=[break]|[A-Z..](?:[a-z..])|$)
LookBreakUpperLowerEnd(s, p) ==
  \/ p > Len(s)
  \/ Break(s[p])
  \/ Upper(s[p]) /\ p + 1 <= Len(s) /\ Lower(s[p + 1])

\* What follows a quantified class in an alternative of unicodeWords.
Look(rest, s, p) ==
  CASE rest = "breakUpperEnd" -> LookBreakUpperEnd(s, p)
    [] rest = "breakUpperLowerEnd" -> LookBreakUpperLowerEnd(s, p)
    [] OTHER -> TRUE

\* A greedy quantifier giving characters back: the longest n of at least min
\* for which what follows the quantified class matches at start + n, or -1.
RECURSIVE Backtrack(_, _, _, _, _)
Backtrack(s, start, n, min, rest) ==
  IF n < min THEN -1
  ELSE IF Look(rest, s, start + n) THEN n
  ELSE Backtrack(s, start, n - 1, min, rest)

(***************************************************************************)
(* hasUnicodeWord.test(str), line 6.                                       *)
(***************************************************************************)
hasUnicodeWord(s) ==
  \E i \in 1..Len(s) :
    \/ AsciiLower(s[i]) /\ i + 1 <= Len(s) /\ AsciiUpper(s[i + 1])
    \/ \E n \in 2..RunLen(s, i, 65..90) :
         i + n <= Len(s) /\ AsciiLower(s[i + n])
    \/ Digit(s[i]) /\ i + 1 <= Len(s) /\ AsciiLetter(s[i + 1])
    \/ AsciiLetter(s[i]) /\ i + 1 <= Len(s) /\ Digit(s[i + 1])
    \/ ~(AsciiLetter(s[i]) \/ Digit(s[i]) \/ s[i] = 32)

(***************************************************************************)
(* str.match(asciiWords), line 3: every maximal run of word characters.    *)
(***************************************************************************)
RECURSIVE asciiWords(_, _)
asciiWords(s, p) ==
  IF p > Len(s) THEN <<>>
  ELSE LET n == RunLen(s, p, AsciiWordChars)
       IN IF n = 0 THEN asciiWords(s, p + 1)
          ELSE <<SubSeq(s, p, p + n - 1)>> \o asciiWords(s, p + n)

(***************************************************************************)
(* The five alternatives of unicodeWords, line 5; each gives the length of *)
(* its match at p, or -1.                                                  *)
(***************************************************************************)
\* [A-Z..]?[a-z..]+ followed by rest: the optional capital is tried first.
OptUpperLowers(s, p, rest) ==
  LET with == IF p <= Len(s) /\ Upper(s[p])
              THEN Backtrack(s, p + 1, RunLen(s, p + 1, Lowers), 1, rest)
              ELSE -1
      without == Backtrack(s, p, RunLen(s, p, Lowers), 1, rest)
  IN IF with >= 0 THEN 1 + with ELSE without

\* [A-Z..]?[a-z..]+(?=[break]|[A-Z..]|$)
UpperLowerWord(s, p) == OptUpperLowers(s, p, "breakUpperEnd")

\* (?:[A-Z..])+(?=[break]|[A-Z..](?:[a-z..])|$)
UppersBeforeWord(s, p) ==
  Backtrack(s, p, RunLen(s, p, Uppers), 1, "breakUpperLowerEnd")

\* [A-Z..]?(?:[a-z..])+
LowerWord(s, p) == OptUpperLowers(s, p, "none")

\* [A-Z..]+
UpperRun(s, p) == Backtrack(s, p, RunLen(s, p, Uppers), 1, "none")

\* \d* in place of \d+: the last alternative may match the empty string.
DigitRunOrEmpty(s, p) == Backtrack(s, p, RunLen(s, p, DigitChars), 0, "none")

\* \d+
DigitRun(s, p) == Backtrack(s, p, RunLen(s, p, DigitChars), 1, "none")

\* The alternatives tried in another order: the plain run of capitals before
\* the run of capitals that stops in front of a capitalized word.
unicodeWordAtReordered(s, p) ==
  IF UpperLowerWord(s, p) >= 0 THEN UpperLowerWord(s, p)
  ELSE IF UpperRun(s, p) >= 0 THEN UpperRun(s, p)
  ELSE IF UppersBeforeWord(s, p) >= 0 THEN UppersBeforeWord(s, p)
  ELSE IF LowerWord(s, p) >= 0 THEN LowerWord(s, p)
  ELSE DigitRun(s, p)

\* The alternation: the first alternative that matches at p decides.
unicodeWordAt(s, p) ==
  IF UpperLowerWord(s, p) >= 0 THEN UpperLowerWord(s, p)
  ELSE IF UppersBeforeWord(s, p) >= 0 THEN UppersBeforeWord(s, p)
  ELSE IF LowerWord(s, p) >= 0 THEN LowerWord(s, p)
  ELSE IF UpperRun(s, p) >= 0 THEN UpperRun(s, p)
  ELSE DigitRun(s, p)

\* The scan resumed one character after the start of a match, not after its end.
RECURSIVE unicodeWordsOverlapping(_, _)
unicodeWordsOverlapping(s, p) ==
  IF p > Len(s) THEN <<>>
  ELSE LET n == unicodeWordAt(s, p)
       IN IF n < 0 THEN unicodeWordsOverlapping(s, p + 1)
          ELSE <<SubSeq(s, p, p + n - 1)>> \o unicodeWordsOverlapping(s, p + 1)

\* str.match(unicodeWords) with the g flag: scan from the left; after an
\* empty match the scan moves on by one character.
RECURSIVE unicodeWords(_, _)
unicodeWords(s, p) ==
  IF p > Len(s) THEN <<>>
  ELSE LET n == unicodeWordAt(s, p)
       IN IF n < 0 THEN unicodeWords(s, p + 1)
          ELSE IF n = 0 THEN <<<<>>>> \o unicodeWords(s, p + 1)
          ELSE <<SubSeq(s, p, p + n - 1)>> \o unicodeWords(s, p + n)

\* String.prototype.match with a global regular expression: null when
\* nothing matches.
StrMatch(tokens) == IF tokens = <<>> THEN Null ELSE Arr(tokens)

(***************************************************************************)
(* words, lines 13 to 15.                                                  *)
(***************************************************************************)
\* words without its "|| []".
wordsNoDefault(s) ==
  IF Truthy(s)
  THEN StrMatch(IF hasUnicodeWord(s.val) THEN unicodeWords(s.val, 1)
                ELSE asciiWords(s.val, 1))
  ELSE s

words(s) ==
  LET m == IF Truthy(s)
           THEN StrMatch(IF hasUnicodeWord(s.val) THEN unicodeWords(s.val, 1)
                         ELSE asciiWords(s.val, 1))
           ELSE s
  IN IF Truthy(m) THEN m ELSE Arr(<<>>)

(***************************************************************************)
(* String.prototype.toLowerCase and toUpperCase on the code units the      *)
(* model uses (Latin-1); toUpperCase of U+00DF is "SS".                    *)
(***************************************************************************)
LowerOf(c) == IF Upper(c) THEN c + 32 ELSE c

UpperOf(c) == IF c = 223 THEN <<83, 83>>
              ELSE IF c = 255 THEN <<376>>
              ELSE IF c = 181 THEN <<924>>
              ELSE IF Lower(c) THEN <<c - 32>>
              ELSE <<c>>

toLowerCase(s) == [i \in 1..Len(s) |-> LowerOf(s[i])]

toUpperCase(s) == Flatten([i \in 1..Len(s) |-> UpperOf(s[i])])

\* lowerCase, lines 26 to 28.
lowerCase(s) == toLowerCase(s)

\* capitalize, lines 53 to 55: str[0] of the empty string is undefined.
capitalize(s) ==
  IF s = <<>> THEN TypeError
  ELSE Str(toUpperCase(<<s[1]>>) \o SubSeq(s, 2, Len(s)))

\* Array.prototype.join over the mapped words.
RECURSIVE Join(_, _)
Join(a, sep) ==
  IF a = <<>> THEN <<>>
  ELSE IF Len(a) = 1 THEN a[1].val
  ELSE a[1].val \o sep \o Join(Tail(a), sep)

\* The callback of camelCase without its lowerCase.
camelWordNoLower(word, i) == IF i = 0 THEN Str(word) ELSE capitalize(word)

\* The callback of camelCase, lines 63 to 66.
camelWord(word, i) ==
  LET w == lowerCase(word)
  IN IF i = 0 THEN Str(w) ELSE capitalize(w)

\* A call wordMapFn(word, i) of the callback mapWords was given.
CallWordMapFn(wordMapFn, word, i) ==
  IF wordMapFn = "lowerCase" THEN Str(lowerCase(word)) ELSE camelWord(word, i)

\* mapWords, lines 17 to 19.  The index handed to wordMapFn counts from 0.
mapWords(s, wordMapFn, join) ==
  LET w == words(s)
  IN IF w.tag # "array" THEN TypeError
     ELSE LET mapped == [i \in 1..Len(w.val) |-> CallWordMapFn(wordMapFn, w.val[i], i - 1)]
          IN IF \E i \in 1..Len(mapped) : mapped[i].tag = "TypeError"
             THEN TypeError
             ELSE Str(Join(mapped, join))

\* caseStr, lines 30 to 32.
caseStr(casing, s) == mapWords(s, "lowerCase", casing)

\* curry of ./functions: fn with its first argument fixed.
curry(fn, a) == [fn |-> fn, first |-> a]

\* A call of a curried caseStr with its second argument.
CallCurried(c, b) == IF c.fn = "caseStr" THEN caseStr(c.first, b) ELSE TypeError

\* kebabCase, line 39.
kebabCase(s) == CallCurried(curry("caseStr", <<45>>), s)

\* camelCase, lines 62 to 67.
camelCase(s) == mapWords(s, "camelWord", <<>>)

(***************************************************************************)
(* The inputs of the word segmenter: every string of at most MaxLen        *)
(* characters over WordChars (a A 2 _ space, U+00C9, U+00DF), the examples *)
(* of the documentation, and absent input.                                 *)
(***************************************************************************)
WordChars == {97, 65, 50, 95, 32, 201, 223}

XMLHttpRequest == <<88, 77, 76, 72, 116, 116, 112, 82, 101, 113, 117, 101, 115, 116>>
foo2bar == <<102, 111, 111, 50, 98, 97, 114>>
foo_bar == <<102, 111, 111, 95, 98, 97, 114>>
foo_bar_baz == <<102, 111, 111, 45, 98, 97, 114, 45, 98, 97, 122>>
simple_words == <<115, 105, 109, 112, 108, 101, 32, 119, 111, 114, 100, 115>>

WordExamples == {XMLHttpRequest, foo2bar, foo_bar, foo_bar_baz, simple_words}

WordInputs ==
  {Str(s) : s \in SeqsUpTo(WordChars, MaxLen) \cup WordExamples}
    \cup {Undefined, Null}

WildIdle == /\ pattern = <<>>
            /\ flags = Undefined
            /\ matcher = None
            /\ cand = <<>>
            /\ result = "none"

TplIdle == /\ tpl = <<>>
           /\ compiled = None
           /\ out = None
           /\ called = <<>>
           /\ resolver = None

InitWords == /\ str \in WordInputs
             /\ ret = None
             /\ op = "init"
             /\ arg = None
             /\ applied = 0
             /\ WildIdle
             /\ TplIdle

\* A call of words(str).
CallWords == /\ ret' = words(str)
             /\ arg' = str
             /\ op' = "words"
             /\ UNCHANGED <<str, applied>>
             /\ UNCHANGED <<wildVars, tplVars>>

\* A call of camelCase(str); its parameter is a string.
CallCamelCase == /\ str.tag = "string"
                 /\ ret' = camelCase(str)
                 /\ arg' = str
                 /\ op' = "camelCase"
                 /\ UNCHANGED <<str, applied>>
                 /\ UNCHANGED <<wildVars, tplVars>>

\* A call of kebabCase(str) whose result the caller keeps as its string.
CallKebabCase == /\ str.tag = "string"
                 /\ applied < MaxApply
                 /\ ret' = kebabCase(str)
                 /\ arg' = str
                 /\ op' = "kebabCase"
                 /\ str' = kebabCase(str)
                 /\ applied' = applied + 1
                 /\ UNCHANGED <<wildVars, tplVars>>

NextWords == CallWords \/ CallCamelCase \/ CallKebabCase

SpecWords == InitWords /\ [][NextWords]_vars

(***************************************************************************)
(* The extended matcher as the specification describes it: at a position   *)
(* the first of (a) to (e) that can match decides, and takes the longest   *)
(* match it can.  MinCaps is the least number of capitals of (b).          *)
(***************************************************************************)
AllIn(s, p, n, Cls) == \A j \in p..(p + n - 1) : j <= Len(s) /\ s[j] \in Cls

SepCapitalOrEnd(s, p) == p > Len(s) \/ Break(s[p]) \/ s[p] \in Uppers

SepPairOrEnd(s, p) ==
  \/ p > Len(s)
  \/ Break(s[p])
  \/ s[p] \in Uppers /\ p + 1 <= Len(s) /\ s[p + 1] \in Lowers

\* The lengths of "optional capital + one-or-more lowercase" at p.
CapLowerLens(s, p) ==
  {u + k : u \in {0, 1}, k \in 1..Len(s)} \cap
  {n \in 1..Len(s) : \E u \in {0, 1} :
     /\ n - u >= 1
     /\ u = 1 => (p <= Len(s) /\ s[p] \in Uppers)
     /\ AllIn(s, p + u, n - u, Lowers)}

LensA(s, p) == {n \in CapLowerLens(s, p) : SepCapitalOrEnd(s, p + n)}
LensB(s, p, MinCaps) ==
  {n \in MinCaps..Len(s) : AllIn(s, p, n, Uppers) /\ SepPairOrEnd(s, p + n)}
LensC(s, p) == CapLowerLens(s, p)
LensD(s, p) == {n \in 1..Len(s) : AllIn(s, p, n, Uppers)}
LensE(s, p) == {n \in 1..Len(s) : AllIn(s, p, n, DigitChars)}

TokenLen(s, p, MinCaps) ==
  IF LensA(s, p) # {} THEN Max(LensA(s, p))
  ELSE IF LensB(s, p, MinCaps) # {} THEN Max(LensB(s, p, MinCaps))
  ELSE IF LensC(s, p) # {} THEN Max(LensC(s, p))
  ELSE IF LensD(s, p) # {} THEN Max(LensD(s, p))
  ELSE IF LensE(s, p) # {} THEN Max(LensE(s, p))
  ELSE 0

RECURSIVE ScanTokens(_, _, _)
ScanTokens(s, p, MinCaps) ==
  IF p > Len(s) THEN <<>>
  ELSE LET n == TokenLen(s, p, MinCaps)
       IN IF n = 0 THEN ScanTokens(s, p + 1, MinCaps)
          ELSE <<SubSeq(s, p, p + n - 1)>> \o ScanTokens(s, p + n, MinCaps)

XML_Http_Request == <<<<88, 77, 76>>, <<72, 116, 116, 112>>,
                      <<82, 101, 113, 117, 101, 115, 116>>>>
foo_2_bar == <<<<102, 111, 111>>, <<50>>, <<98, 97, 114>>>>

ExtendedSelected == op = "words" /\ arg.tag = "string" /\ hasUnicodeWord(arg.val)

WordsExamples ==
  /\ (op = "words" /\ arg = Str(XMLHttpRequest)) => ret = Arr(XML_Http_Request)
  /\ (op = "words" /\ arg = Str(foo2bar)) => ret = Arr(foo_2_bar)

\* C4 as stated: on the extended path words() returns the tokens of the scan
\* (a) to (e), where (b) is a run of 2 or more capitals in front of a
\* separator, a capital-then-lowercase pair or the end.
C4_ScanTwoOrMoreCapitals ==
  /\ ExtendedSelected => ret = Arr(ScanTokens(arg.val, 1, 2))
  /\ WordsExamples

\* C4 amended: the same with (b) a run of 1 or more capitals.
C4_ScanOneOrMoreCapitals ==
  /\ ExtendedSelected => ret = Arr(ScanTokens(arg.val, 1, 1))
  /\ WordsExamples

C4_Witness ==
  op = "words" /\ arg = Str(XMLHttpRequest) /\ ret = Arr(XML_Http_Request)

(***************************************************************************)
(* camelCase as the specification describes it.                            *)
(***************************************************************************)
FirstUpperRestUntouched(w) == toUpperCase(<<w[1]>>) \o Tail(w)

CamelOf(tokens) ==
  Flatten([i \in 1..Len(tokens) |->
             IF i = 1 THEN toLowerCase(tokens[i])
             ELSE FirstUpperRestUntouched(toLowerCase(tokens[i]))])

fooBar == <<102, 111, 111, 66, 97, 114>>
fooBarBaz == <<102, 111, 111, 66, 97, 114, 66, 97, 122>>

\* C7: camelCase(s) is the concatenation of the tokens of words(s), each
\* lowercased, the first as it is and every later one with its first
\* character uppercased; camelCase("foo_bar") = "fooBar" and
\* camelCase("foo-bar-baz") = "fooBarBaz".
C7_CamelCaseOfTokens ==
  /\ op = "camelCase" => ret = Str(CamelOf(words(arg).val))
  /\ (op = "camelCase" /\ arg = Str(foo_bar)) => ret = Str(fooBar)
  /\ (op = "camelCase" /\ arg = Str(foo_bar_baz)) => ret = Str(fooBarBaz)

C7_Witness ==
  op = "camelCase" /\ arg = Str(foo_bar_baz) /\ ret = Str(fooBarBaz)

\* C8: kebabCase applied to an output of kebabCase gives that output back.
C8_KebabIdempotent ==
  (op = "kebabCase" /\ applied >= 2) => ret = arg

C8_Witness ==
  /\ op = "kebabCase" /\ applied = 2
  /\ arg = Str(<<102, 111, 111, 45, 98, 97, 114>>)
  /\ ret = arg

(***************************************************************************)
(* Absent input and input without words.                                   *)
(***************************************************************************)
NoWordCharacter(s) ==
  \A i \in 1..Len(s) : s[i] \notin Uppers \cup Lowers \cup DigitChars

\* C9: words(undefined), words(null), words("") and words(s) for s without a
\* word-forming character all return the empty sequence.
C9_NoWordsIsEmpty ==
  (op = "words" /\ (arg.tag \in {"undefined", "null"} \/ NoWordCharacter(arg.val)))
    => ret = Arr(<<>>)

C9_Witness == op = "words" /\ arg = Undefined /\ ret = Arr(<<>>)

\* C10: every token of words(s) is a non-empty string, on both matcher
\* paths, and camelCase(s) never fails in capitalize.
C10_TokensNonEmpty ==
  /\ op = "words" => \A i \in 1..Len(ret.val) : ret.val[i] # <<>>
  /\ op = "camelCase" => ret.tag = "string"

C10_Witness ==
  /\ op = "camelCase"
  /\ Len(words(arg).val) >= 2
  /\ ~hasUnicodeWord(arg.val)
  /\ ret.tag = "string"


(***************************************************************************)
(* Regular expressions as wildcardToRegExp builds them: a source of        *)
(* literal characters, escaped characters, ".", "^", "$" and the           *)
(* quantifiers "*", "+", "?" with their lazy forms.  The sources the model *)
(* compiles hold no group, class or alternation.                           *)
(***************************************************************************)
LineTerminators == {10, 13, 8232, 8233}

Quantifiers == {42, 43, 63}

Item(kind, ch, min, many, lazy) ==
  [kind |-> kind, ch |-> ch, min |-> min, many |-> many, lazy |-> lazy]

\* The atom at position i of the source and the position after it.
AtomAt(src, i) ==
  IF src[i] = 92 THEN [kind |-> "char", ch |-> src[i + 1], next |-> i + 2]
  ELSE IF src[i] = 94 THEN [kind |-> "bol", ch |-> 0, next |-> i + 1]
  ELSE IF src[i] = 36 THEN [kind |-> "eol", ch |-> 0, next |-> i + 1]
  ELSE IF src[i] = 46 THEN [kind |-> "any", ch |-> 0, next |-> i + 1]
  ELSE [kind |-> "char", ch |-> src[i], next |-> i + 1]

\* The pattern parsed from position i on: its items, or an error for a
\* quantifier with nothing to repeat or a backslash at the end.
RECURSIVE ParseRegExp(_, _)
ParseRegExp(src, i) ==
  IF i > Len(src) THEN [ok |-> TRUE, items |-> <<>>]
  ELSE IF src[i] \in Quantifiers THEN [ok |-> FALSE, items |-> <<>>]
  ELSE IF src[i] = 92 /\ i = Len(src) THEN [ok |-> FALSE, items |-> <<>>]
  ELSE
    LET a == AtomAt(src, i)
        q == IF a.next <= Len(src) /\ src[a.next] \in Quantifiers
             THEN src[a.next] ELSE 0
        lazy == q # 0 /\ a.next + 1 <= Len(src) /\ src[a.next + 1] = 63
        next == a.next + (IF q # 0 THEN 1 ELSE 0) + (IF lazy THEN 1 ELSE 0)
        rest == ParseRegExp(src, next)
        item == Item(a.kind, a.ch, IF q \in {42, 63} THEN 0 ELSE 1,
                     q \in {42, 43}, lazy)
    IN IF q # 0 /\ a.kind \in {"bol", "eol"} THEN [ok |-> FALSE, items |-> <<>>]
       ELSE IF ~rest.ok THEN rest
       ELSE [ok |-> TRUE, items |-> <<item>> \o rest.items]

\* Canonicalize of the i flag: the upper-case form when it is one code unit
\* and does not turn a non-ASCII character into an ASCII one.
Canonicalize(c) ==
  LET u == UpperOf(c)
  IN IF Len(u) = 1 /\ ~(c >= 128 /\ u[1] < 128) THEN u[1] ELSE c

CharMatches(item, c, fl) ==
  IF item.kind = "any" THEN c \notin LineTerminators
  ELSE IF 105 \in fl THEN Canonicalize(c) = Canonicalize(item.ch)
  ELSE c = item.ch

\* The most repetitions of the item's atom that fit at p.
RECURSIVE AtomRun(_, _, _, _)
AtomRun(item, s, p, fl) ==
  IF p <= Len(s) /\ CharMatches(item, s[p], fl)
  THEN 1 + AtomRun(item, s, p + 1, fl) ELSE 0

AssertionHolds(item, s, p, fl) ==
  IF item.kind = "bol"
  THEN p = 1 \/ (109 \in fl /\ s[p - 1] \in LineTerminators)
  ELSE p = Len(s) + 1 \/ (109 \in fl /\ s[p] \in LineTerminators)

\* Backtracking: the position after the first match of items k.. at p in
\* the order the engine tries them (greedy: most repetitions first; lazy:
\* fewest first), or -1.
RECURSIVE MatchItems(_, _, _, _, _)
RECURSIVE TryRepeats(_, _, _, _, _, _, _)
MatchItems(items, k, s, p, fl) ==
  IF k > Len(items) THEN p
  ELSE IF items[k].kind \in {"bol", "eol"}
  THEN IF AssertionHolds(items[k], s, p, fl)
       THEN MatchItems(items, k + 1, s, p, fl) ELSE -1
  ELSE
    LET run == AtomRun(items[k], s, p, fl)
        hi == IF items[k].many THEN run ELSE IF run >= 1 THEN 1 ELSE 0
        lo == items[k].min
    IN IF hi < lo THEN -1
       ELSE TryRepeats(items, k, s, p, fl,
                       IF items[k].lazy THEN lo ELSE hi,
                       IF items[k].lazy THEN hi ELSE lo)

TryRepeats(items, k, s, p, fl, n, last) ==
  LET end == MatchItems(items, k + 1, s, p + n, fl)
  IN IF end >= 0 THEN end
     ELSE IF n = last THEN -1
     ELSE TryRepeats(items, k, s, p, fl, IF n < last THEN n + 1 ELSE n - 1, last)

\* The first start position from p on at which the pattern matches:
\* <<start, end>>, or <<-1, -1>>.
RECURSIVE Search(_, _, _, _)
Search(items, s, p, fl) ==
  IF p > Len(s) + 1 THEN <<-1, -1>>
  ELSE LET end == MatchItems(items, 1, s, p, fl)
       IN IF end >= 0 THEN <<p, end>> ELSE Search(items, s, p + 1, fl)

\* new RegExp(source, flags): a SyntaxError for flags that are unknown or
\* repeated and for a source that does not parse.
NewRegExp(source, f) ==
  LET fs == IF f.tag = "string" THEN f.val ELSE <<>>
      fl == {fs[i] : i \in 1..Len(fs)}
  IN IF \/ fl \ {100, 103, 105, 109, 115, 117, 121} # {}
        \/ Cardinality(fl) # Len(fs)
        \/ ~ParseRegExp(source, 1).ok
     THEN SyntaxError
     ELSE [tag |-> "RegExp", val |-> source, flags |-> fl, lastIndex |-> 0]

\* RegExp.prototype.test: with the g flag the search starts at lastIndex
\* and leaves lastIndex at the end of the match, or at 0 without a match.
RegExpTest(re, s) ==
  LET global == 103 \in re.flags
      from == IF global THEN re.lastIndex ELSE 0
      m == IF from > Len(s) THEN <<-1, -1>>
           ELSE Search(ParseRegExp(re.val, 1).items, s, from + 1, re.flags)
  IN [found |-> m[1] >= 0,
      re |-> IF ~global THEN re
             ELSE [re EXCEPT !.lastIndex = IF m[1] >= 0 THEN m[2] - 1 ELSE 0]]

(***************************************************************************)
(* wildcardToRegExp, lines 84 to 94.                                       *)
(***************************************************************************)
\* /^\/(.+)\/([im]+)?$/.exec(wildcardPattern): the closing slash is looked
\* for from the right, as the greedy .+ gives characters back; 0 without one.
RECURSIVE ClosingSlash(_, _)
ClosingSlash(p, j) ==
  IF j < 3 THEN 0
  ELSE IF /\ p[1] = 47
          /\ p[j] = 47
          /\ \A i \in 2..(j - 1) : p[i] \notin LineTerminators
          /\ \A i \in (j + 1)..Len(p) : p[i] \in {105, 109}
  THEN j
  ELSE ClosingSlash(p, j - 1)

\* .replace(/\*/g, '.*?') and .replace(/\+/g, '.+?')
ReplaceAll(s, c, by) ==
  Flatten([i \in 1..Len(s) |-> IF s[i] = c THEN by ELSE <<s[i]>>])

\* The pattern with nothing escaped.
EscapeNothing(s) == s

\* .replace(/[\-\[\]\/{}()?.\\^$|]/g, '\\$&')
EscapeRegExp(s) ==
  Flatten([i \in 1..Len(s) |->
    IF s[i] \in {45, 91, 93, 47, 123, 125, 40, 41, 63, 46, 92, 94, 36, 124}
    THEN <<92, s[i]>> ELSE <<s[i]>>])

\* wildcardToRegExp with the g flag always set.
wildcardToRegExpGlobal(wildcardPattern, f) ==
  NewRegExp(<<94>> \o ReplaceAll(ReplaceAll(EscapeRegExp(wildcardPattern),
                                            42, <<46, 42, 63>>),
                                 43, <<46, 43, 63>>) \o <<36>>,
            Str(<<103>>))

wildcardToRegExp(wildcardPattern, f) ==
  LET j == ClosingSlash(wildcardPattern, Len(wildcardPattern))
      group1 == SubSeq(wildcardPattern, 2, j - 1)
      group2 == IF j < Len(wildcardPattern)
                THEN Str(SubSeq(wildcardPattern, j + 1, Len(wildcardPattern)))
                ELSE Undefined
      escaped == ReplaceAll(ReplaceAll(EscapeRegExp(wildcardPattern),
                                       42, <<46, 42, 63>>),
                            43, <<46, 43, 63>>)
  IN IF j > 0
     THEN NewRegExp(group1, IF Truthy(group2) THEN group2 ELSE f)
     ELSE NewRegExp(<<94>> \o escaped \o <<36>>, f)

(***************************************************************************)
(* The wildcard compiler as a state machine: one matcher is compiled and   *)
(* then tested against candidates, any number of times up to MaxTests.     *)
(***************************************************************************)
MaxPatLen == 2
MaxCandLen == 1
MaxTests == 2

\* a * + / .
PatternChars == {97, 42, 43, 47, 46}
\* a A and a line feed
CandidateChars == {97, 65, 10}

hel_o == <<104, 101, 108, 42, 111>>
hello == <<104, 101, 108, 108, 111>>
helzzzzo == <<104, 101, 108, 122, 122, 122, 122, 111>>
helo == <<104, 101, 108, 111>>
xhello == <<120, 104, 101, 108, 108, 111>>

\* "/^a.b$/i" and "A1B", "/a/"
raw_a_b_i == <<47, 94, 97, 46, 98, 36, 47, 105>>
A1B == <<65, 49, 66>>
raw_a == <<47, 97, 47>>

Patterns == SeqsUpTo(PatternChars, MaxPatLen) \cup {hel_o, raw_a_b_i, raw_a}

\* The candidates a matcher is tested against: the short ones, and for a
\* pattern of the documentation its candidates.
Candidates(p) ==
  SeqsUpTo(CandidateChars, MaxCandLen)
    \cup (IF p = hel_o THEN {hello, helzzzzo, helo, xhello} ELSE {})
    \cup (IF p = raw_a_b_i THEN {A1B} ELSE {})

\* absent, "i", "g", "m"
FlagOptions == {Undefined, Str(<<105>>), Str(<<103>>), Str(<<109>>)}

WordsIdle == /\ str = Undefined
             /\ ret = None
             /\ arg = None
             /\ applied = 0

InitWildcard == /\ pattern \in Patterns
                /\ flags \in FlagOptions
                /\ matcher = None
                /\ cand = <<>>
                /\ result = "none"
                /\ op = "init"
                /\ WordsIdle
                /\ TplIdle

\* The call wildcardToRegExp(pattern, flags).
CallWildcardToRegExp ==
  /\ matcher = None
  /\ matcher' = wildcardToRegExp(pattern, flags)
  /\ op' = "wildcardToRegExp"
  /\ UNCHANGED <<pattern, flags, cand, result>>
  /\ UNCHANGED <<str, ret, arg, applied, tplVars>>

\* A call matcher.test(c).
CallTest ==
  /\ matcher.tag = "RegExp"
  /\ applied < MaxTests
  /\ \E c \in Candidates(pattern) :
       LET r == RegExpTest(matcher, c)
       IN /\ cand' = c
          /\ result' = IF r.found THEN "true" ELSE "false"
          /\ matcher' = r.re
  /\ applied' = applied + 1
  /\ op' = "test"
  /\ UNCHANGED <<pattern, flags>>
  /\ UNCHANGED <<str, ret, arg, tplVars>>

NextWildcard == CallWildcardToRegExp \/ CallTest

SpecWildcard == InitWildcard /\ [][NextWildcard]_vars


(***************************************************************************)
(* template, lines 104 to 116.                                             *)
(***************************************************************************)
\* \s
WhiteSpace == {9, 10, 11, 12, 13, 32, 160}

\* [^;\s{]
KeyChars == CodeUnits \ ({59, 123} \cup WhiteSpace)

\* The end of [\s]*} tried at p with j characters of white space, then fewer.
RECURSIVE TryTrail(_, _, _)
TryTrail(t, p, j) ==
  IF j < 0 THEN 0
  ELSE IF p + j <= Len(t) /\ t[p + j] = 125 THEN p + j + 1
  ELSE TryTrail(t, p, j - 1)

\* [^;\s{]+ tried at p with k characters, then fewer.
RECURSIVE TryKey(_, _, _)
TryKey(t, p, k) ==
  IF k < 1 THEN 0
  ELSE LET e == TryTrail(t, p + k, RunLen(t, p + k, WhiteSpace))
       IN IF e > 0 THEN e ELSE TryKey(t, p, k - 1)

\* The leading [\s]* tried at p with w characters, then fewer.
RECURSIVE TryLead(_, _, _)
TryLead(t, p, w) ==
  IF w < 0 THEN 0
  ELSE LET e == TryKey(t, p + w, RunLen(t, p + w, KeyChars))
       IN IF e > 0 THEN e ELSE TryLead(t, p, w - 1)

\* (\${([\s]*[^;\s{]+[\s]*)}) matched at q: the position after the match,
\* or 0.
PlaceholderEnd(t, q) ==
  IF q + 1 <= Len(t) /\ t[q] = 36 /\ t[q + 1] = 123
  THEN TryLead(t, q + 2, RunLen(t, q + 2, WhiteSpace))
  ELSE 0

\* template.split(...): the text before a match, then the two captures of
\* the match (the placeholder, and what is inside its braces), and so on.
RECURSIVE Split(_, _, _)
Split(t, p, q) ==
  IF q > Len(t) THEN <<SubSeq(t, p, Len(t))>>
  ELSE LET e == PlaceholderEnd(t, q)
       IN IF e = 0 THEN Split(t, p, q + 1)
          ELSE <<SubSeq(t, p, q - 1), SubSeq(t, q, e - 1),
                 SubSeq(t, q + 2, e - 2)>> \o Split(t, e, e)

\* "undefined", what `${sanitized[++i]}` gives past the end of the array.
UndefinedText == <<117, 110, 100, 101, 102, 105, 110, 101, 100>>

\* sanitized[i].replace('"', '\\"'): a string pattern replaces the first
\* occurrence only.
RECURSIVE ReplaceFirstQuote(_)
ReplaceFirstQuote(s) ==
  IF s = <<>> THEN <<>>
  ELSE IF Head(s) = 34 THEN <<92, 34>> \o Tail(s)
  ELSE <<Head(s)>> \o ReplaceFirstQuote(Tail(s))

\* The loop of lines 108 to 114 from index i on (i counts from 1 here).
RECURSIVE FnBody(_, _)
FnBody(sanitized, i) ==
  IF i > Len(sanitized) THEN <<>>
  ELSE IF sanitized[i] # <<>> /\ sanitized[i][1] = 36
  THEN <<36, 100, 40, 39>>
         \o (IF i + 1 <= Len(sanitized) THEN sanitized[i + 1] ELSE UndefinedText)
         \o <<39, 41, 44>> \o FnBody(sanitized, i + 2)
  ELSE <<34>> \o ReplaceFirstQuote(sanitized[i]) \o <<34, 44>>
         \o FnBody(sanitized, i + 1)

\* 'return [' ... ']'
FnSource(t) ==
  <<114, 101, 116, 117, 114, 110, 32, 91>> \o FnBody(Split(t, 1, 1), 1) \o <<93>>

(***************************************************************************)
(* Function('$d', source) for the sources template builds: an array of     *)
(* string literals and calls $d('...').  With the characters of the model  *)
(* every other continuation is a SyntaxError of JavaScript.                *)
(***************************************************************************)
\* The character a backslash escape stands for.
EscapeValue(c) ==
  CASE c = 110 -> 10 [] c = 116 -> 9 [] c = 114 -> 13 [] c = 98 -> 8
    [] c = 102 -> 12 [] c = 118 -> 11 [] c = 48 -> 0 [] OTHER -> c

\* A string literal whose opening quote is before position i: its value and
\* the position after its closing quote; ok is FALSE when it is not closed.
RECURSIVE StringLiteral(_, _, _, _)
StringLiteral(src, i, quote, acc) ==
  IF i > Len(src) \/ src[i] \in LineTerminators
  THEN [ok |-> FALSE, val |-> acc, next |-> i]
  ELSE IF src[i] = quote THEN [ok |-> TRUE, val |-> acc, next |-> i + 1]
  ELSE IF src[i] = 92
  THEN IF i + 1 > Len(src) THEN [ok |-> FALSE, val |-> acc, next |-> i]
       ELSE StringLiteral(src, i + 2, quote, Append(acc, EscapeValue(src[i + 1])))
  ELSE StringLiteral(src, i + 1, quote, Append(acc, src[i]))

SkipSpaces(src, i) == i + RunLen(src, i, WhiteSpace)

StartsWith(src, i, w) ==
  i + Len(w) - 1 <= Len(src) /\ SubSeq(src, i, i + Len(w) - 1) = w

\* The elements of the array literal from position i on.
RECURSIVE ArrayElements(_, _)
ArrayElements(src, i0) ==
  LET i == SkipSpaces(src, i0)
      fail == [ok |-> FALSE, elems |-> <<>>]
  IN IF i > Len(src) THEN fail
     ELSE IF src[i] = 93
     THEN IF SkipSpaces(src, i + 1) > Len(src)
          THEN [ok |-> TRUE, elems |-> <<>>] ELSE fail
     ELSE
       LET call == StartsWith(src, i, <<36, 100, 40>>)
           j == IF call THEN SkipSpaces(src, i + 3) ELSE i
           lit == IF j <= Len(src) /\ src[j] \in {34, 39}
                  THEN StringLiteral(src, j + 1, src[j], <<>>)
                  ELSE [ok |-> FALSE, val |-> <<>>, next |-> j]
           k == SkipSpaces(src, lit.next)
           closed == ~call \/ (k <= Len(src) /\ src[k] = 41)
           m == SkipSpaces(src, IF call THEN k + 1 ELSE k)
           elem == [kind |-> IF call THEN "call" ELSE "lit", val |-> lit.val]
       IN IF ~lit.ok \/ ~closed \/ m > Len(src) THEN fail
          ELSE IF src[m] = 44
          THEN LET rest == ArrayElements(src, m + 1)
               IN IF rest.ok THEN [ok |-> TRUE, elems |-> <<elem>> \o rest.elems]
                  ELSE fail
          ELSE IF src[m] = 93 /\ SkipSpaces(src, m + 1) > Len(src)
          THEN [ok |-> TRUE, elems |-> <<elem>>]
          ELSE fail

\* Function('$d', source): the function, or the SyntaxError thrown.
NewFunction(src) ==
  LET body == ArrayElements(src, 9)
  IN IF body.ok THEN [tag |-> "function", val |-> body.elems] ELSE SyntaxError

template(t) == NewFunction(FnSource(t))

(***************************************************************************)
(* templateObject, lines 124 to 128.                                       *)
(***************************************************************************)
templateObject(value, nullValue) ==
  [tag |-> "resolver", val |-> value, nullValue |-> nullValue]

\* value[key] || nullValue
CallResolver(r, key) ==
  LET v == IF key \in DOMAIN r.val THEN r.val[key] ELSE Undefined
  IN IF Truthy(v) THEN v ELSE r.nullValue

\* A call f(resolve) of the compiled function: its array, and the keys it
\* called resolve with.
CallFunction(f, r) ==
  [array |-> Arr([i \in 1..Len(f.val) |->
                    IF f.val[i].kind = "call" THEN CallResolver(r, f.val[i].val)
                    ELSE Str(f.val[i].val)]),
   keys |-> SelectSeq([i \in 1..Len(f.val) |->
                         IF f.val[i].kind = "call" THEN Str(f.val[i].val) ELSE None],
                      LAMBDA x : x.tag = "string")]

(***************************************************************************)
(* The template compiler as a state machine: a template is compiled and    *)
(* the compiled function is called up to MaxCalls times.                   *)
(***************************************************************************)
MaxTplLen == 6
MaxCalls == 2

\* $ { } space a "
TemplateChars == {36, 123, 125, 32, 97, 34}

\* "Hello ${ name }!" and "Hello ${name}!"
Hello_name_spaced == <<72, 101, 108, 108, 111, 32, 36, 123, 32, 110, 97, 109, 101,
                       32, 125, 33>>
Hello_name == <<72, 101, 108, 108, 111, 32, 36, 123, 110, 97, 109, 101, 125, 33>>
Hello_Bob == <<72, 101, 108, 108, 111, 32, 66, 111, 98, 33>>
name == <<110, 97, 109, 101>>
Bob == <<66, 111, 98>>

Templates == SeqsUpTo(TemplateChars, MaxTplLen) \cup {Hello_name_spaced, Hello_name}

\* templateObject({name: "Bob"}) and templateObject({a: "Bob", name: ""}, "a")
BobResolver == templateObject((name :> Str(Bob)), Undefined)
Resolvers == {BobResolver,
              templateObject((<<97>> :> Str(Bob)) @@ (name :> Str(<<>>)), Str(<<97>>))}

InitTemplate == /\ tpl \in Templates
                /\ compiled = None
                /\ out = None
                /\ called = <<>>
                /\ resolver = None
                /\ op = "init"
                /\ WordsIdle
                /\ WildIdle

\* The call template(tpl).
CallTemplate ==
  /\ compiled = None
  /\ compiled' = template(tpl)
  /\ op' = "template"
  /\ UNCHANGED <<tpl, out, called, resolver>>
  /\ UNCHANGED <<str, ret, arg, applied, wildVars>>

\* A call of the compiled function with a resolve callback.
CallCompiled ==
  /\ compiled.tag = "function"
  /\ applied < MaxCalls
  /\ \E r \in Resolvers :
       /\ resolver' = r
       /\ out' = CallFunction(compiled, r).array
       /\ called' = CallFunction(compiled, r).keys
  /\ applied' = applied + 1
  /\ op' = "call"
  /\ UNCHANGED <<tpl, compiled>>
  /\ UNCHANGED <<str, ret, arg, wildVars>>

NextTemplate == CallTemplate \/ CallCompiled

SpecTemplate == InitTemplate /\ [][NextTemplate]_vars

(***************************************************************************)
(* The parse of a template as the specification describes it: literal      *)
(* segments with the placeholders between them.                            *)
(***************************************************************************)
Placeholders(t) == (Len(Split(t, 1, 1)) - 1) \div 3

\* The k-th literal segment, k from 0, and the k-th placeholder's key, k from 1.
LiteralOf(t, k) == Split(t, 1, 1)[3 * k + 1]
KeyOf(t, k) == Split(t, 1, 1)[3 * k]

RECURSIVE TrimStart(_)
TrimStart(s) ==
  IF s # <<>> /\ Head(s) \in WhiteSpace THEN TrimStart(Tail(s)) ELSE s

RECURSIVE TrimEnd(_)
TrimEnd(s) ==
  IF s # <<>> /\ s[Len(s)] \in WhiteSpace
  THEN TrimEnd(SubSeq(s, 1, Len(s) - 1)) ELSE s

Trim(s) == TrimEnd(TrimStart(s))

\* No literal segment of the template begins with "$".
PlainLiterals(t) ==
  \A k \in 0..Placeholders(t) : LiteralOf(t, k) = <<>> \/ LiteralOf(t, k)[1] # 36

Called == op = "call"

\* C1: white space inside the braces of a placeholder is ignored: resolve is
\* called with the key stripped of it, and
\* template("Hello ${ name }!")(templateObject({name:"Bob"})).join("") is
\* "Hello Bob!".
C1_KeyWhitespaceIgnored ==
  /\ (Called /\ PlainLiterals(tpl)) =>
       called = [k \in 1..Placeholders(tpl) |-> Str(Trim(KeyOf(tpl, k)))]
  /\ (Called /\ tpl = Hello_name_spaced /\ resolver = BobResolver) =>
       Join(out.val, <<>>) = Hello_Bob

\* C2: template() returns a compiled function for every template; every
\* literal segment, whatever its characters, is unchanged at its place in
\* the array the function returns; resolve is called only for the
\* placeholders, with the placeholder's key.
C2_LiteralsUnchanged ==
  /\ op = "template" => compiled.tag = "function"
  /\ Called =>
       /\ Len(out.val) = 2 * Placeholders(tpl) + 1
       /\ \A k \in 0..Placeholders(tpl) : out.val[2 * k + 1] = Str(LiteralOf(tpl, k))
       /\ Len(called) = Placeholders(tpl)
       /\ \A k \in 1..Placeholders(tpl) :
            called[k].val \in {KeyOf(tpl, k), Trim(KeyOf(tpl, k))}

\* C3: the array of the compiled function has one entry for each placeholder
\* and one for each literal segment, the same for every resolve, and every
\* call gives what its own resolve gives.
C3_SegmentsFixedByParse ==
  /\ op = "template" => compiled.tag = "function"
  /\ Called =>
       /\ out = CallFunction(compiled, resolver).array
       /\ \A r \in Resolvers :
            LET a == CallFunction(compiled, r).array.val
            IN /\ Len(a) = 2 * Placeholders(tpl) + 1
               /\ \A k \in 0..Placeholders(tpl) :
                    a[2 * k + 1] = Str(LiteralOf(tpl, k))

(***************************************************************************)
(* Whole-string wildcard matching as the specification describes it: "*"   *)
(* is any sequence of characters, "+" one or more characters, every other  *)
(* character of the pattern is itself; ci compares letters without case.   *)
(***************************************************************************)
SameChar(a, b, ci) == IF ci THEN UpperOf(a) = UpperOf(b) ELSE a = b

Drop(s, k) == SubSeq(s, k + 1, Len(s))

RECURSIVE GlobMatches(_, _, _)
GlobMatches(pat, s, ci) ==
  IF pat = <<>> THEN s = <<>>
  ELSE IF Head(pat) = 42
  THEN \E k \in 0..Len(s) : GlobMatches(Tail(pat), Drop(s, k), ci)
  ELSE IF Head(pat) = 43
  THEN \E k \in 1..Len(s) : GlobMatches(Tail(pat), Drop(s, k), ci)
  ELSE /\ s # <<>>
       /\ SameChar(Head(pat), Head(s), ci)
       /\ GlobMatches(Tail(pat), Tail(s), ci)

\* A pattern of the raw form /source/ or /source/flags.
RawForm(p) ==
  /\ Len(p) >= 3
  /\ p[1] = 47
  /\ \E j \in 3..Len(p) :
       /\ p[j] = 47
       /\ \A i \in 2..(j - 1) : p[i] \notin LineTerminators
       /\ \A i \in (j + 1)..Len(p) : p[i] \in {105, 109}

HasLineTerminator(s) == \E i \in 1..Len(s) : s[i] \in LineTerminators

Tested == op = "test" /\ matcher.tag = "RegExp"

HelloExamples ==
  (Tested /\ pattern = hel_o /\ flags = Undefined) =>
    /\ cand \in {hello, helzzzzo, helo} => result = "true"
    /\ cand = xhello => result = "false"

GRequested == flags.tag = "string" /\ \E i \in 1..Len(flags.val) : flags.val[i] = 103

Unchanged ==
  /\ matcher = wildcardToRegExp(pattern, flags)
  /\ (result = "true") = RegExpTest(wildcardToRegExp(pattern, flags), cand).found

\* C6 as stated: for any flags of i, g, m no test() call changes the
\* matcher, and every test() returns what a single test() of the candidate
\* on a freshly compiled matcher returns.
C6_ImmutableMatcher == Tested => Unchanged

\* C6 amended: the same for flags of i and m, without g.
C6_ImmutableMatcherWithoutG == (Tested /\ ~GRequested) => Unchanged

C6_Witness ==
  /\ Tested /\ applied = 2 /\ flags = Str(<<105>>)
  /\ pattern = <<97>> /\ cand = <<65>> /\ result = "true"

====
